---------------------------- MODULE Spec2Model ----------------------------
(***************************************************************************)
(* A model of the Smart UAE Agent: the tools of src/smart_uae_agent/tools.py*)
(* and src/smart_uae_agent/tools.fixed.py (budget estimator, prayer times,  *)
(* knowledge search, preference store, web search), and the agent loop of   *)
(* smart_uae_agent.py / smart_uae_agent.fixed.py driven by the chat loop of *)
(* app_streamlit.py.                                                        *)
(*                                                                         *)
(* A tool is a function of its arguments, of the preference store and of    *)
(* what the remote service answers.  Each tool is an operator computing the *)
(* tool's outcome the way the code does; an action calls it with arguments  *)
(* drawn from a small set and leaves the outcome in `call', and ToolReturn  *)
(* hands the outcome back to the caller.  An exception that leaves the tool *)
(* is the outcome [kind |-> "raise"].                                       *)
(***************************************************************************)
EXTENDS Integers, Sequences, FiniteSets, TLC

VARIABLES
    call,       \* the tool call whose outcome was just computed, or Idle
    prefs,      \* tools.py: PreferencesStore._store of the session
    lastSet,    \* history: key -> the value most recently written to prefs
    PREFS,      \* tools.fixed.py: the module-level PreferencesStore._store
    lastSetFixed, \* history: key -> the value most recently written to PREFS
    kb,         \* tools.fixed.py: the knowledge document loaded by make_tools
    hasDDG,     \* tools.fixed.py: _HAS_DDG
    impl,       \* which tools module the session imports: "tools.py" or "tools.fixed.py"
    turn,       \* the AgentExecutor's run for the utterance being answered
    sessions    \* app_streamlit.py: st.session_state of each browser session

vars == <<call, prefs, lastSet, PREFS, lastSetFixed, kb, hasDDG, impl, turn, sessions>>

(***************************************************************************)
(* Python values.  A string is a sequence of one-character strings, so that *)
(* lower(), strip(), title(), split() and `in' are computed, not assumed.   *)
(***************************************************************************)
PyNone == [t |-> "None"]
PyStr(s) == [t |-> "str", v |-> s]
PyInt(i) == [t |-> "int", v |-> i]
PyList(l) == [t |-> "list", v |-> l]
PyDict(d) == [t |-> "dict", v |-> d]

IsStr(x) == x.t = "str"

\* bool(x) for the values above
Truthy(x) ==
    CASE x.t = "None" -> FALSE
      [] x.t = "str"  -> x.v # <<>>
      [] x.t = "int"  -> x.v # 0
      [] x.t = "list" -> x.v # <<>>
      [] x.t = "dict" -> DOMAIN x.v # {}

\* Python's `a or b'
PyOr(a, b) == IF Truthy(a) THEN a ELSE b

\* dict.get(key, default) on a function with string keys
DictGet(d, key, default) == IF key \in DOMAIN d THEN d[key] ELSE default

EmptyDict == [k \in {} |-> PyNone]

UpperChars == <<"A","B","C","D","E","F","G","H","I","J","K","L","M",
                "N","O","P","Q","R","S","T","U","V","W","X","Y","Z">>
LowerChars == <<"a","b","c","d","e","f","g","h","i","j","k","l","m",
                "n","o","p","q","r","s","t","u","v","w","x","y","z">>
Whitespace == {" "}

\* the letters' other case, as tables
ToLower == [c \in {UpperChars[i] : i \in DOMAIN UpperChars} |->
              LowerChars[CHOOSE i \in DOMAIN UpperChars : UpperChars[i] = c]]
ToUpper == [c \in {LowerChars[i] : i \in DOMAIN LowerChars} |->
              UpperChars[CHOOSE i \in DOMAIN LowerChars : LowerChars[i] = c]]

IsUpper(c) == c \in DOMAIN ToLower
IsLower(c) == c \in DOMAIN ToUpper
IsLetter(c) == IsUpper(c) \/ IsLower(c)
LowerChar(c) == IF IsUpper(c) THEN ToLower[c] ELSE c
UpperChar(c) == IF IsLower(c) THEN ToUpper[c] ELSE c

\* str.lower()
Lower(s) == [i \in 1..Len(s) |-> LowerChar(s[i])]

\* str.strip()
Strip(s) ==
    LET keep == {i \in 1..Len(s) : s[i] \notin Whitespace}
    IN  IF keep = {} THEN <<>>
        ELSE LET lo == CHOOSE i \in keep : \A j \in keep : i <= j
                 hi == CHOOSE i \in keep : \A j \in keep : j <= i
             IN  SubSeq(s, lo, hi)

\* str.title(): a letter that follows a non-letter is upper-cased, any other
\* letter lower-cased
Title(s) ==
    [i \in 1..Len(s) |->
        IF i = 1 \/ ~IsLetter(s[i-1]) THEN UpperChar(s[i]) ELSE LowerChar(s[i])]

\* `sub in s' for strings
Contains(sub, s) ==
    \E i \in 0..(Len(s) - Len(sub)) : \A j \in 1..Len(sub) : s[i + j] = sub[j]

(***************************************************************************)
(* Bounds of the model.                                                     *)
(***************************************************************************)
MaxDays == 3
MaxTravellers == 2

(***************************************************************************)
(* math.ceil(subtotal * 1.10), tools.py line 104.  The literal 1.10 is the  *)
(* IEEE-754 double 0x1.199999999999Ap+0 = Mant110 / 2^52, and the product   *)
(* is the exact product rounded to 53 significant bits, ties to even.  The  *)
(* arithmetic is done on 16-bit limbs, least significant first.             *)
(***************************************************************************)
LimbBase == 65536
Mant110 == <<39322, 39321, 39321, 17>>      \* 0x0011 9999 9999 999A

Pow2(k) == IF k = 0 THEN 1 ELSE IF k = 1 THEN 2 ELSE IF k = 2 THEN 4
      ELSE IF k = 3 THEN 8 ELSE IF k = 4 THEN 16 ELSE IF k = 5 THEN 32
      ELSE IF k = 6 THEN 64 ELSE IF k = 7 THEN 128 ELSE IF k = 8 THEN 256
      ELSE IF k = 9 THEN 512 ELSE IF k = 10 THEN 1024 ELSE IF k = 11 THEN 2048
      ELSE IF k = 12 THEN 4096 ELSE IF k = 13 THEN 8192 ELSE IF k = 14 THEN 16384
      ELSE 32768

\* floor(log2(i)) for 1 <= i < 2^16
Log2(i) == CHOOSE k \in 0..15 : Pow2(k) <= i /\ (k = 15 \/ i < Pow2(k + 1))

\* n * 1.10 as a double, for 0 < n < 2^15: the integer part of the rounded
\* product and whether its fraction is zero
FloatMul110(n) ==
    LET c0 == n * Mant110[1]
        c1 == n * Mant110[2] + (c0 \div LimbBase)
        c2 == n * Mant110[3] + (c1 \div LimbBase)
        c3 == n * Mant110[4] + (c2 \div LimbBase)
        p0 == c0 % LimbBase         \* fraction bits 0..15  (units of 2^-52)
        p1 == c1 % LimbBase         \* fraction bits 16..31
        p2 == c2 % LimbBase         \* fraction bits 32..47
        \* c3 = fraction bits 48..51 and the integer part
        k  == Log2(c3 \div 16)      \* the product lies in [2^k, 2^(k+1))
        r  == p0 % Pow2(k)          \* the k bits that do not fit in 53
        half == IF k = 0 THEN 1 ELSE Pow2(k - 1)
        odd == (p0 \div Pow2(k)) % 2 = 1
        up == k > 0 /\ (r > half \/ (r = half /\ odd))
        f0 == p0 - r + (IF up THEN Pow2(k) ELSE 0)
        f1 == p1 + (f0 \div LimbBase)
        f2 == p2 + (f1 \div LimbBase)
        f3 == c3 + (f2 \div LimbBase)
    IN  [int |-> f3 \div 16,
         fracZero |-> f0 % LimbBase = 0 /\ f1 % LimbBase = 0
                      /\ f2 % LimbBase = 0 /\ f3 % 16 = 0]

\* math.ceil(n * 1.10); a negative n negates the product
CeilMul110(n) ==
    IF n = 0 THEN 0
    ELSE IF n > 0
         THEN LET p == FloatMul110(n) IN IF p.fracZero THEN p.int ELSE p.int + 1
         ELSE -(FloatMul110(-n).int)

(***************************************************************************)
(* Strings used as arguments and table keys.                                *)
(***************************************************************************)
sDubai == <<"D","u","b","a","i">>
sAbuDhabi == <<"A","b","u"," ","D","h","a","b","i">>
sSharjah == <<"S","h","a","r","j","a","h">>
sGeneral == <<"G","e","n","e","r","a","l">>
sAjman == <<"A","j","m","a","n">>
sBudget == <<"b","u","d","g","e","t">>
sMid == <<"m","i","d">>
sLuxe == <<"l","u","x","e">>
sLUXE == <<"L","U","X","E">>
sPlatinum == <<"p","l","a","t","i","n","u","m">>
sStandard == <<"s","t","a","n","d","a","r","d">>
sLuxury == <<"l","u","x","u","r","y">>
sLuxuryPadded == <<" ","L","u","x","u","r","y"," ">>
sEn == <<"e","n">>
sAr == <<"a","r">>
sFood == <<"f","o","o","d">>
sAb == <<"a","b">>
sC == <<"c">>

\* keys of the preference stores
kBudgetLevel == <<"b","u","d","g","e","t","_","l","e","v","e","l">>
kInterests == <<"i","n","t","e","r","e","s","t","s">>
kFood == <<"f","o","o","d">>
kHomeCity == <<"h","o","m","e","_","c","i","t","y">>
kLanguage == <<"l","a","n","g","u","a","g","e">>
kDefaultBudget == <<"d","e","f","a","u","l","t","_","b","u","d","g","e","t">>
kFoo == <<"f","o","o">>

(***************************************************************************)
(* tools.py: PreferencesStore                                               *)
(***************************************************************************)
\* PreferencesStore.__init__
PreferencesStore_init ==
    [k \in {kBudgetLevel, kInterests, kFood} |->
        CASE k = kBudgetLevel -> PyStr(sMid)
          [] k = kInterests   -> PyList(<<>>)
          [] k = kFood        -> PyNone]

\* PreferencesStore.set: the store after set(key, value)
PreferencesStore_set(store, key, value) ==
    [k \in DOMAIN store \cup {key} |-> IF k = key THEN value ELSE store[k]]

\* PreferencesStore.get
PreferencesStore_get(store, key, default) == DictGet(store, key, default)

\* PreferencesStore.dump
PreferencesStore_dump(store) == store

(***************************************************************************)
(* tools.py: estimate_budget                                                *)
(***************************************************************************)
Tiers == {sBudget, sMid, sLuxe}

CITY_COSTS(city, lvl) ==
    CASE city = sDubai ->
            (CASE lvl = sBudget -> 100 [] lvl = sMid -> 150 [] lvl = sLuxe -> 250)
      [] city \in {sAbuDhabi, sSharjah, sGeneral} ->
            (CASE lvl = sBudget -> 50 [] lvl = sMid -> 120 [] lvl = sLuxe -> 260)

KnownCostCities == {sDubai, sAbuDhabi, sSharjah, sGeneral}

TRANSPORT_DAY(lvl) == CASE lvl = sBudget -> 12 [] lvl = sMid -> 25 [] lvl = sLuxe -> 60
MEALS_DAY(lvl) == CASE lvl = sBudget -> 18 [] lvl = sMid -> 35 [] lvl = sLuxe -> 80
ATTRACTIONS(lvl) == CASE lvl = sBudget -> 10 [] lvl = sMid -> 25 [] lvl = sLuxe -> 50

\* the outcome of estimate_budget(city, days, travellers, budget_level) with
\* the session's store
estimate_budget(store, city, days, travellers, budget_level) ==
    LET chosen == PyOr(budget_level, PreferencesStore_get(store, kBudgetLevel, PyStr(sMid)))
    IN  IF ~IsStr(chosen)
        THEN [kind |-> "raise", exc |-> "AttributeError"]    \* .lower() of a non-string
        ELSE
        LET lowered == Lower(chosen.v)
            lvl == IF lowered \notin Tiers THEN sMid ELSE lowered
            base == IF city \in KnownCostCities THEN city ELSE sGeneral
            hotel == CITY_COSTS(base, lvl) * days * travellers
            transport == TRANSPORT_DAY(lvl) * days * travellers
            meals == MEALS_DAY(lvl) * days * travellers
            attractions == ATTRACTIONS(lvl) * days * travellers
            subtotal == hotel + transport + meals + attractions
            total == CeilMul110(subtotal)
        IN  [kind |-> "quote",
             budget_level |-> lvl,
             accommodation |-> hotel,
             transport |-> transport,
             meals |-> meals,
             attractions |-> attractions,
             buffer_10pct |-> total - subtotal,
             total_usd |-> total]

(***************************************************************************)
(* tools.fixed.py: estimate_budget                                          *)
(***************************************************************************)
Styles == {sBudget, sStandard, sLuxury}

rates(style) == CASE style = sBudget -> 150 [] style = sStandard -> 400 [] style = sLuxury -> 1000

estimate_budget_fixed(city, days, style) ==
    LET st == Strip(Lower(PyOr(style, PyStr(sStandard)).v))
    IN  IF st \notin Styles
        THEN [kind |-> "error", field |-> "style"]
        ELSE IF days <= 0
        THEN [kind |-> "error", field |-> "days"]
        ELSE [kind |-> "quote",
              style |-> st,
              rate_per_day_aed |-> rates(st),
              estimated_total_aed |-> rates(st) * days]

(***************************************************************************)
(* tools.py: set_preferences / get_preferences                              *)
(***************************************************************************)
\* dict.update(d) of a JSON value d, on a store s.  A dict is merged.  Any
\* other iterable is read as a sequence of key/value pairs, each written as
\* it is read, until an element that is no pair raises; what is not
\* iterable raises.  The result is the store as it is left and whether the
\* call raised.
RECURSIVE UpdateFromPairs(_, _, _)
UpdateFromPairs(s, items, i) ==
    IF i > Len(items) THEN [store |-> s, raised |-> FALSE]
    ELSE LET e == items[i]
         IN  IF e.t \in {"str", "list"} /\ Len(e.v) = 2
                /\ (e.t = "list" => IsStr(e.v[1]))
             THEN LET key == IF e.t = "str" THEN <<e.v[1]>> ELSE e.v[1].v
                      val == IF e.t = "str" THEN PyStr(<<e.v[2]>>) ELSE e.v[2]
                  IN  UpdateFromPairs(
                        [k \in DOMAIN s \cup {key} |-> IF k = key THEN val ELSE s[k]],
                        items, i + 1)
             ELSE [store |-> s, raised |-> TRUE]

\* dict(d): the mutant of PreferencesStore.update that replaces the store
PreferencesStore_update_replace(store, d) ==
    IF d.t = "dict" THEN [store |-> d.v, raised |-> FALSE]
    ELSE [store |-> store, raised |-> TRUE]

\* PreferencesStore.update
PreferencesStore_update(store, d) ==
    CASE d.t = "dict" ->
            [store |-> [k \in DOMAIN store \cup DOMAIN d.v |->
                            IF k \in DOMAIN d.v THEN d.v[k] ELSE store[k]],
             raised |-> FALSE]
      [] d.t = "list" -> UpdateFromPairs(store, d.v, 1)
      [] d.t = "str" ->
            UpdateFromPairs(store, [i \in 1..Len(d.v) |-> PyStr(<<d.v[i]>>)], 1)
      [] OTHER -> [store |-> store, raised |-> TRUE]

\* json.loads of the argument: the text is either no JSON or the text of a
\* JSON value
json_loads(text) ==
    IF text.valid THEN [raised |-> FALSE, value |-> text.value]
    ELSE [raised |-> TRUE]

\* set_preferences(preferences_json): the store as it is left and the outcome
set_preferences(store, preferences_json) ==
    LET d == json_loads(preferences_json)
    IN  IF d.raised
        THEN [store |-> store, out |-> [kind |-> "error"]]
        ELSE LET u == PreferencesStore_update(store, d.value)
             IN  IF u.raised
                 THEN [store |-> u.store, out |-> [kind |-> "error"]]
                 ELSE [store |-> u.store,
                       out |-> [kind |-> "ok", prefs |-> PreferencesStore_dump(u.store)]]

\* get_preferences()
get_preferences(store) == [kind |-> "prefs", prefs |-> PreferencesStore_dump(store)]

(***************************************************************************)
(* tools.fixed.py: PreferencesStore, set_preferences / get_preferences      *)
(***************************************************************************)
PreferencesStoreFixed_init ==
    [k \in {kBudgetLevel, kHomeCity, kLanguage} |->
        CASE k = kBudgetLevel -> PyStr(sStandard)
          [] k = kHomeCity    -> PyNone
          [] k = kLanguage    -> PyStr(sEn)]

\* PreferencesStore.set_many(**kwargs)
set_many(store, kwargs) ==
    [k \in DOMAIN store \cup DOMAIN kwargs |->
        IF k \in DOMAIN kwargs THEN kwargs[k] ELSE store[k]]

\* PreferencesStore.get_all()
get_all(store) == store

\* the `updates' dict that set_preferences builds from its three arguments
set_preferences_updates(budget_level, home_city, language) ==
    LET given == [k \in {kBudgetLevel, kHomeCity, kLanguage} |->
                    CASE k = kBudgetLevel -> budget_level
                      [] k = kHomeCity    -> home_city
                      [] k = kLanguage    -> language]
    IN  [k \in {x \in DOMAIN given : Truthy(given[x])} |-> given[k]]

\* set_preferences(budget_level, home_city, language)
set_preferences_fixed(store, budget_level, home_city, language) ==
    LET after == set_many(store, set_preferences_updates(budget_level, home_city, language))
    IN  [store |-> after, out |-> [kind |-> "prefs", preferences |-> get_all(after)]]

\* get_preferences()
get_preferences_fixed(store) == [kind |-> "prefs", preferences |-> get_all(store)]

(***************************************************************************)
(* The state after construction, and the tool calls as actions.             *)
(***************************************************************************)
Impls == {"tools.py", "tools.fixed.py"}
Idle == [tool |-> "none"]

\* the browser sessions of the app
SessionIds == {1, 2}

\* _ensure_session_state: the state of a session that has just connected
\* (pc and runs: where _safe_agent_invoke is in the turn being answered)
NewSession ==
    [messages |-> <<>>, prefs |-> PreferencesStore_init, pc |-> "idle", runs |-> 0]

\* no utterance is being answered
NoTurn == [phase |-> "Idle", iterations |-> 0, invoked |-> 0, pending |-> 0]

BudgetCities == {sDubai, sSharjah, sAjman}
DayArgs == (-1)..MaxDays
TravellerArgs == 1..MaxTravellers
LevelArgs == {PyNone, PyStr(<<>>), PyStr(sBudget), PyStr(sMid), PyStr(sLuxe),
              PyStr(sLUXE), PyStr(sPlatinum)}
StyleArgs == {PyNone, PyStr(sBudget), PyStr(sStandard), PyStr(sLuxury),
              PyStr(sLuxuryPadded), PyStr(sPlatinum), PyStr(sMid)}

JsonText(v) == [valid |-> TRUE, value |-> v]
NotJson == [valid |-> FALSE]
OneKey(k, v) == PyDict([x \in {k} |-> v])

\* the arguments set_preferences of tools.py is called with
PreferenceJsons ==
    { NotJson,
      JsonText(OneKey(kBudgetLevel, PyStr(sLuxe))),
      JsonText(OneKey(kBudgetLevel, PyStr(sPlatinum))),
      JsonText(OneKey(kBudgetLevel, PyNone)),
      JsonText(OneKey(kFoo, PyInt(1))),
      JsonText(OneKey(kInterests, PyList(<<PyStr(sFood)>>))),
      JsonText(PyDict([x \in {kBudgetLevel, kHomeCity} |->
                          IF x = kBudgetLevel THEN PyStr(sBudget) ELSE PyStr(sDubai)])),
      JsonText(PyList(<<PyList(<<PyStr(kHomeCity), PyStr(sSharjah)>>)>>)),
      JsonText(PyList(<<PyStr(sAb), PyStr(sC)>>)),
      JsonText(PyStr(sMid)),
      JsonText(PyInt(5)),
      JsonText(PyNone) }

\* the keys a call of PreferencesStore.update wrote, with the values written
Written(d) == PreferencesStore_update(EmptyDict, d).store

Merge(f, g) == [k \in DOMAIN f \cup DOMAIN g |-> IF k \in DOMAIN g THEN g[k] ELSE f[k]]

InitCommon ==
    /\ call = Idle
    /\ prefs = PreferencesStore_init
    /\ lastSet = EmptyDict
    /\ PREFS = PreferencesStoreFixed_init
    /\ lastSetFixed = EmptyDict
    /\ impl \in Impls
    /\ turn = NoTurn
    /\ sessions = [s \in SessionIds |-> NewSession]

\* the agent calls estimate_budget of tools.py
CallEstimateBudget ==
    /\ call = Idle /\ impl = "tools.py"
    /\ \E city \in BudgetCities, days \in DayArgs,
          travellers \in TravellerArgs, budget_level \in LevelArgs :
         call' = [tool |-> "estimate_budget",
                  args |-> [city |-> city, days |-> days,
                            travellers |-> travellers, budget_level |-> budget_level],
                  out |-> estimate_budget(prefs, city, days, travellers, budget_level)]
    /\ UNCHANGED <<prefs, lastSet, PREFS, lastSetFixed, kb, hasDDG, impl, turn, sessions>>

\* the agent calls estimate_budget of tools.fixed.py
CallEstimateBudgetFixed ==
    /\ call = Idle /\ impl = "tools.fixed.py"
    /\ \E city \in BudgetCities, days \in DayArgs, style \in StyleArgs :
         call' = [tool |-> "estimate_budget",
                  args |-> [city |-> city, days |-> days, style |-> style],
                  out |-> estimate_budget_fixed(city, days, style)]
    /\ UNCHANGED <<prefs, lastSet, PREFS, lastSetFixed, kb, hasDDG, impl, turn, sessions>>

\* the agent calls set_preferences of tools.py
CallSetPreferences ==
    /\ call = Idle /\ impl = "tools.py"
    /\ \E text \in PreferenceJsons :
         LET r == set_preferences(prefs, text)
         IN  /\ prefs' = r.store
             /\ lastSet' = IF text.valid THEN Merge(lastSet, Written(text.value))
                           ELSE lastSet
             /\ call' = [tool |-> "set_preferences", args |-> [preferences_json |-> text],
                         before |-> prefs, out |-> r.out]
    /\ UNCHANGED <<PREFS, lastSetFixed, kb, hasDDG, impl, turn, sessions>>

\* the agent calls get_preferences of tools.py
CallGetPreferences ==
    /\ call = Idle /\ impl = "tools.py"
    /\ call' = [tool |-> "get_preferences", out |-> get_preferences(prefs)]
    /\ UNCHANGED <<prefs, lastSet, PREFS, lastSetFixed, kb, hasDDG, impl, turn, sessions>>

\* the keys and defaults PreferencesStore.get of tools.py is called with
GetKeys == {kBudgetLevel, kInterests, kFood, kHomeCity, kFoo, kDefaultBudget}
GetDefaults == {PyNone, PyStr(sMid)}

\* a caller reads one key: prefs.get(key, default), as estimate_budget does
CallPreferencesStoreGet ==
    /\ call = Idle /\ impl = "tools.py"
    /\ \E key \in GetKeys, default \in GetDefaults :
         call' = [tool |-> "PreferencesStore.get",
                  args |-> [key |-> key, default |-> default],
                  out |-> PreferencesStore_get(prefs, key, default)]
    /\ UNCHANGED <<prefs, lastSet, PREFS, lastSetFixed, kb, hasDDG, impl, turn, sessions>>

\* app_streamlit.py lines 146-147: each run of the script stores the
\* sidebar's choice with prefs.set("default_budget", ...).  The
\* PreferencesStore of tools.fixed.py has no method `set': the call raises
\* AttributeError and the store is as it was.
SidebarBudgets == {sBudget, sMid, sLuxe}

SidebarSetDefaultBudget ==
    /\ call = Idle
    /\ \E default_budget \in SidebarBudgets :
         IF impl = "tools.py"
         THEN /\ prefs' = PreferencesStore_set(prefs, kDefaultBudget, PyStr(default_budget))
              /\ lastSet' = Merge(lastSet, OneKey(kDefaultBudget, PyStr(default_budget)).v)
              /\ call' = [tool |-> "PreferencesStore.set",
                          args |-> [key |-> kDefaultBudget, value |-> PyStr(default_budget)],
                          before |-> prefs, out |-> [kind |-> "ok"]]
         ELSE /\ call' = [tool |-> "PreferencesStore.set",
                          args |-> [key |-> kDefaultBudget, value |-> PyStr(default_budget)],
                          before |-> PREFS, out |-> [kind |-> "raise"]]
              /\ UNCHANGED <<prefs, lastSet>>
    /\ UNCHANGED <<PREFS, lastSetFixed, kb, hasDDG, impl, turn, sessions>>

\* the arguments set_preferences of tools.fixed.py is called with
FixedBudgetLevelArgs == {PyNone, PyStr(<<>>), PyStr(sBudget), PyStr(sLuxury)}
FixedHomeCityArgs == {PyNone, PyStr(sDubai), PyStr(sSharjah)}
FixedLanguageArgs == {PyNone, PyStr(sAr)}

\* the agent calls set_preferences of tools.fixed.py
CallSetPreferencesFixed ==
    /\ call = Idle /\ impl = "tools.fixed.py"
    /\ \E budget_level \in FixedBudgetLevelArgs, home_city \in FixedHomeCityArgs,
          language \in FixedLanguageArgs :
         LET r == set_preferences_fixed(PREFS, budget_level, home_city, language)
         IN  /\ PREFS' = r.store
             /\ lastSetFixed' =
                   Merge(lastSetFixed,
                         set_preferences_updates(budget_level, home_city, language))
             /\ call' = [tool |-> "set_preferences",
                         args |-> [budget_level |-> budget_level,
                                   home_city |-> home_city, language |-> language],
                         before |-> PREFS, out |-> r.out]
    /\ UNCHANGED <<prefs, lastSet, kb, hasDDG, impl, turn, sessions>>

\* the agent calls get_preferences of tools.fixed.py
CallGetPreferencesFixed ==
    /\ call = Idle /\ impl = "tools.fixed.py"
    /\ call' = [tool |-> "get_preferences", out |-> get_preferences_fixed(PREFS)]
    /\ UNCHANGED <<prefs, lastSet, PREFS, lastSetFixed, kb, hasDDG, impl, turn, sessions>>

\* the tool's JSON string goes back to the agent
ToolReturn ==
    /\ call # Idle
    /\ call' = Idle
    /\ UNCHANGED <<prefs, lastSet, PREFS, lastSetFixed, kb, hasDDG, impl, turn, sessions>>

(***************************************************************************)
(* The budget estimator.                                                    *)
(***************************************************************************)
InitBudget == InitCommon /\ kb = EmptyDict /\ hasDDG = TRUE

NextBudget ==
    \/ CallEstimateBudget
    \/ CallEstimateBudgetFixed
    \/ CallSetPreferences
    \/ ToolReturn

SpecBudget == InitBudget /\ [][NextBudget]_vars

IsBudgetCall == call.tool = "estimate_budget"

\* the tier the call of tools.py asks for: the argument, or the stored level
RequestedLevel == PyOr(call.args.budget_level,
                       PreferencesStore_get(prefs, kBudgetLevel, PyStr(sMid)))

\* ceil(1.10 * n) = ceil(11 n / 10), exactly
ExactCeil110(n) == -((-(11 * n)) \div 10)

CategorySum(q) == q.accommodation + q.transport + q.meals + q.attractions

\* C1: for days > 0, travellers >= 1 and a tier in {budget, mid, luxe}, the
\* total of estimate_budget is the exact ceiling of 1.10 times the sum of
\* the four category costs, and the buffer is the total minus that sum.
C1_TotalIsExactCeiling ==
    (/\ IsBudgetCall /\ impl = "tools.py"
     /\ call.args.days > 0 /\ call.args.travellers >= 1
     /\ IsStr(RequestedLevel) /\ RequestedLevel.v \in Tiers)
    => /\ call.out.kind = "quote"
       /\ call.out.total_usd = ExactCeil110(CategorySum(call.out))
       /\ call.out.buffer_10pct = call.out.total_usd - CategorySum(call.out)

\* the tier argument names no tier of the implementation
UnrecognizedTier ==
    IF impl = "tools.py"
    THEN /\ IsStr(call.args.budget_level) /\ call.args.budget_level.v # <<>>
         /\ Lower(call.args.budget_level.v) \notin Tiers
    ELSE /\ IsStr(call.args.style) /\ call.args.style.v # <<>>
         /\ Strip(Lower(call.args.style.v)) \notin Styles

\* C2: estimate_budget with days <= 0 or an unrecognized tier ends in a
\* validation error; it never substitutes a default tier or returns a quote.
C2_InvalidArgumentsRejected ==
    (IsBudgetCall /\ (call.args.days <= 0 \/ UnrecognizedTier))
    => call.out.kind = "error"

(***************************************************************************)
(* prayer_times.  The remote service is the environment: a call of          *)
(* requests.get(...) followed by .json() raises (no connection, timeout,    *)
(* a body that is no JSON) or yields a JSON value.                          *)
(***************************************************************************)
nFajr == <<"F","a","j","r">>
nDhuhr == <<"D","h","u","h","r">>
nAsr == <<"A","s","r">>
nMaghrib == <<"M","a","g","h","r","i","b">>
nIsha == <<"I","s","h","a">>
nSunrise == <<"S","u","n","r","i","s","e">>
nMidnight == <<"M","i","d","n","i","g","h","t">>

kData == <<"d","a","t","a">>
kTimings == <<"t","i","m","i","n","g","s">>
kCode == <<"c","o","d","e">>
kDate == <<"d","a","t","e">>

Time(h1, h2, m1, m2) == PyStr(<<h1, h2, ":", m1, m2>>)

\* the order of the comprehension of tools.fixed.py line 150
PrayerNames == <<nFajr, nDhuhr, nAsr, nMaghrib, nIsha>>
FiveNames == {PrayerNames[i] : i \in DOMAIN PrayerNames}

\* FALLBACK of tools.fixed.py
FALLBACK_Cities == {sDubai, sAbuDhabi, sSharjah}
FALLBACK(city) ==
    CASE city = sDubai ->
            [n \in FiveNames |->
                CASE n = nFajr -> Time("0","4","2","5") [] n = nDhuhr -> Time("1","2","2","5")
                  [] n = nAsr -> Time("1","5","5","5") [] n = nMaghrib -> Time("1","8","4","9")
                  [] n = nIsha -> Time("2","0","1","9")]
      [] city = sAbuDhabi ->
            [n \in FiveNames |->
                CASE n = nFajr -> Time("0","4","3","0") [] n = nDhuhr -> Time("1","2","3","0")
                  [] n = nAsr -> Time("1","6","0","0") [] n = nMaghrib -> Time("1","8","5","3")
                  [] n = nIsha -> Time("2","0","2","3")]
      [] city = sSharjah ->
            [n \in FiveNames |->
                CASE n = nFajr -> Time("0","4","2","6") [] n = nDhuhr -> Time("1","2","2","5")
                  [] n = nAsr -> Time("1","5","5","6") [] n = nMaghrib -> Time("1","8","4","9")
                  [] n = nIsha -> Time("2","0","1","9")]

\* FALLBACK.get(city_norm, FALLBACK["Dubai"])
FALLBACK_get(city_norm) ==
    IF city_norm \in FALLBACK_Cities THEN FALLBACK(city_norm) ELSE FALLBACK(sDubai)

\* str.split(sep) for a one-character separator
RECURSIVE SplitFrom(_, _, _, _)
SplitFrom(s, sep, i, cur) ==
    IF i > Len(s) THEN <<cur>>
    ELSE IF s[i] = sep THEN <<cur>> \o SplitFrom(s, sep, i + 1, <<>>)
    ELSE SplitFrom(s, sep, i + 1, Append(cur, s[i]))
Split(s, sep) == SplitFrom(s, sep, 1, <<>>)

\* datetime.now() as strftime("%Y"), ("%m"), ("%d")
NowParts == <<<<"2","0","2","5">>, <<"0","6">>, <<"1","5">>>>

\* f"{yyyy}-{mm}-{dd}"
IsoDate(p) == p[1] \o <<"-">> \o p[2] \o <<"-">> \o p[3]

\* x[key] of a JSON value: the value, or a raise
Subscript(x, key) ==
    IF x.t = "dict" /\ key \in DOMAIN x.v
    THEN [raised |-> FALSE, value |-> x.v[key]]
    ELSE [raised |-> TRUE]

\* the mutant of live_timings that keeps every key the service sent
live_timings_unfiltered(remote) ==
    IF remote.kind # "body" THEN [raised |-> TRUE]
    ELSE LET data == Subscript(remote.body, kData)
         IN  IF data.raised THEN [raised |-> TRUE]
             ELSE LET timings == Subscript(data.value, kTimings)
                  IN  IF timings.raised \/ timings.value.t # "dict"
                      THEN [raised |-> TRUE]
                      ELSE [raised |-> FALSE, out |-> timings.value.v]

\* tools.fixed.py lines 143-150: resp.json()["data"]["timings"] filtered to
\* the five names.  A `timings' that is no dict either raises or holds none
\* of the names; both end in the fallback and are the one outcome `raised'.
live_timings(remote) ==
    IF remote.kind # "body" THEN [raised |-> TRUE]
    ELSE LET data == Subscript(remote.body, kData)
         IN  IF data.raised THEN [raised |-> TRUE]
             ELSE LET timings == Subscript(data.value, kTimings)
                  IN  IF timings.raised \/ timings.value.t # "dict"
                      THEN [raised |-> TRUE]
                      ELSE [raised |-> FALSE,
                            out |-> [k \in FiveNames \cap DOMAIN timings.value.v |->
                                        timings.value.v[k]]]

\* prayer_times(city, date) of tools.fixed.py
prayer_times_fixed(city, date, remote) ==
    LET stripped == Title(Strip(PyOr(city, PyStr(<<>>)).v))
        city_norm == IF stripped # <<>> THEN stripped ELSE sDubai
        given == IF ~Truthy(date) THEN IsoDate(NowParts) ELSE date.v
        parts == Split(given, "-")
        ymd == IF Len(parts) = 3 THEN parts ELSE NowParts
        live == live_timings(remote)
    IN  IF ~live.raised /\ DOMAIN live.out # {}
        THEN [kind |-> "prayer_times", city |-> city_norm, date |-> IsoDate(ymd),
              prayer_times |-> live.out]
        ELSE [kind |-> "prayer_times", city |-> city_norm, date |-> IsoDate(ymd),
              prayer_times |-> FALLBACK_get(city_norm), note |-> "Static fallback"]

\* prayer_times(city, date) of tools.py
prayer_times(city, date, remote) ==
    IF date # PyNone THEN [kind |-> "None"]          \* falls off the end of the function
    ELSE IF remote.kind # "body" THEN [kind |-> "error"]
    ELSE IF remote.body.t # "dict" THEN [kind |-> "error"]     \* data.get of a non-dict
    ELSE IF DictGet(remote.body.v, kCode, PyNone) = PyInt(200)
    THEN LET d == Subscript(remote.body, kDate)
         IN  IF d.raised THEN [kind |-> "error"]
             ELSE LET timings == Subscript(d.value, kTimings)
                  IN  IF timings.raised THEN [kind |-> "error"]
                      ELSE [kind |-> "results", city |-> city,
                            date |-> IsoDate(NowParts), results |-> timings.value]
    ELSE [kind |-> "error", error |-> DictGet(remote.body.v, kData, PyNone)]

sdubai == <<"d","u","b","a","i">>
sDubaiPadded == <<" ","D","u","b","a","i"," ">>
sABUDHABI == <<"A","B","U"," ","D","H","A","B","I">>
ssharjah == <<"s","h","a","r","j","a","h">>
sajman == <<"a","j","m","a","n">>
sBlank == <<" "," ">>

PrayerCityArgs == {PyNone, PyStr(<<>>), PyStr(sBlank), PyStr(sdubai), PyStr(sDubaiPadded),
                   PyStr(sABUDHABI), PyStr(ssharjah), PyStr(sajman)}

dIso == <<"2","0","2","4","-","0","3","-","1","0">>
dSlashes == <<"2","0","2","4","/","0","3","/","1","0">>
dShort == <<"2","0","2","4","-","0","3">>
dLong == <<"1","0","-","0","3","-","2","0","2","4","-","x">>
dDashes == <<"-","-">>

PrayerDateArgs == {PyNone, PyStr(<<>>), PyStr(dIso), PyStr(dSlashes), PyStr(dShort),
                   PyStr(dLong), PyStr(dDashes)}

\* what the service may send as `timings': any set of the five names and of
\* two names the filter drops
ServiceNames == FiveNames \cup {nSunrise, nMidnight}
ServiceTimings == { [k \in ks |-> Time("0","5","1","0")] : ks \in SUBSET ServiceNames }

DataWith(t) == OneKey(kTimings, t)
Body(code, data) ==
    PyDict([k \in {kCode, kData} |-> IF k = kCode THEN PyInt(code) ELSE data])

RemoteBodies ==
    { Body(200, DataWith(PyDict(t))) : t \in ServiceTimings }
    \cup { Body(200, DataWith(PyNone)),
           Body(200, DataWith(PyList(<<PyStr(nFajr)>>))),
           Body(200, PyDict(EmptyDict)),
           Body(400, PyStr(sAjman)),
           OneKey(kCode, PyInt(200)),
           PyDict(EmptyDict),
           PyNone,
           PyDict([k \in {kCode, kData, kDate} |->
                     CASE k = kCode -> PyInt(200)
                       [] k = kData -> DataWith(PyDict(FALLBACK(sDubai)))
                       [] k = kDate -> DataWith(PyDict(FALLBACK(sDubai)))]) }

RemoteOutcomes ==
    { [kind |-> "exception"], [kind |-> "timeout"], [kind |-> "not_json"] }
    \cup { [kind |-> "body", body |-> b] : b \in RemoteBodies }

\* the agent calls prayer_times of tools.py
CallPrayerTimes ==
    /\ call = Idle /\ impl = "tools.py"
    /\ \E city \in PrayerCityArgs, date \in PrayerDateArgs, remote \in RemoteOutcomes :
         call' = [tool |-> "prayer_times",
                  args |-> [city |-> city, date |-> date],
                  remote |-> remote,
                  out |-> prayer_times(city, date, remote)]
    /\ UNCHANGED <<prefs, lastSet, PREFS, lastSetFixed, kb, hasDDG, impl, turn, sessions>>

\* the agent calls prayer_times of tools.fixed.py
CallPrayerTimesFixed ==
    /\ call = Idle /\ impl = "tools.fixed.py"
    /\ \E city \in PrayerCityArgs, date \in PrayerDateArgs, remote \in RemoteOutcomes :
         call' = [tool |-> "prayer_times",
                  args |-> [city |-> city, date |-> date],
                  remote |-> remote,
                  out |-> prayer_times_fixed(city, date, remote)]
    /\ UNCHANGED <<prefs, lastSet, PREFS, lastSetFixed, kb, hasDDG, impl, turn, sessions>>

InitPrayer == InitCommon /\ kb = EmptyDict /\ hasDDG = TRUE

NextPrayer ==
    \/ CallPrayerTimes
    \/ CallPrayerTimesFixed
    \/ ToolReturn

SpecPrayer == InitPrayer /\ [][NextPrayer]_vars

IsPrayerCall == call.tool = "prayer_times"

\* the timings object of the service's answer, when it sent one
SentTimings(remote) ==
    IF /\ remote.kind = "body" /\ remote.body.t = "dict"
       /\ kData \in DOMAIN remote.body.v /\ remote.body.v[kData].t = "dict"
       /\ kTimings \in DOMAIN remote.body.v[kData].v
       /\ remote.body.v[kData].v[kTimings].t = "dict"
    THEN remote.body.v[kData].v[kTimings].v
    ELSE EmptyDict

\* the remote call failed: it raised, or its body holds no timings object
RemoteFailed(remote) ==
    ~(/\ remote.kind = "body" /\ remote.body.t = "dict"
      /\ kData \in DOMAIN remote.body.v /\ remote.body.v[kData].t = "dict"
      /\ kTimings \in DOMAIN remote.body.v[kData].v
      /\ remote.body.v[kData].v[kTimings].t = "dict")

\* the city the fallback table is asked for
NormalizedCity(city) ==
    LET s == IF IsStr(city) THEN Title(Strip(city.v)) ELSE <<>>
    IN  IF s = <<>> THEN sDubai ELSE s

IsFallbackResult(out) ==
    /\ out.kind = "prayer_times"
    /\ "note" \in DOMAIN out

\* C3: prayer_times never raises, and whenever the remote call fails it
\* returns the static fallback, marked as fallback, with exactly the five
\* names, from the Dubai row when the city is not in the table.
C3_FailureEndsInFallback ==
    IsPrayerCall =>
        /\ call.out.kind # "raise"
        /\ RemoteFailed(call.remote) =>
              /\ IsFallbackResult(call.out)
              /\ DOMAIN call.out.prayer_times = FiveNames
              /\ call.out.prayer_times =
                    IF NormalizedCity(call.args.city) \in FALLBACK_Cities
                    THEN FALLBACK(NormalizedCity(call.args.city))
                    ELSE FALLBACK(sDubai)

\* C4: every result of prayer_times of tools.fixed.py names at least one and
\* only the five prayers; a result is marked as fallback exactly when the
\* static table supplied its timings, and then names all five; an unmarked
\* result holds the service's timings for the names it has.
C4_TimingNames ==
    (IsPrayerCall /\ impl = "tools.fixed.py") =>
        /\ call.out.kind = "prayer_times"
        /\ DOMAIN call.out.prayer_times # {}
        /\ DOMAIN call.out.prayer_times \subseteq FiveNames
        /\ IsFallbackResult(call.out) <=>
              (FiveNames \cap DOMAIN SentTimings(call.remote) = {})
        /\ IsFallbackResult(call.out) =>
              /\ DOMAIN call.out.prayer_times = FiveNames
              /\ \E c \in FALLBACK_Cities : call.out.prayer_times = FALLBACK(c)
        /\ ~IsFallbackResult(call.out) =>
              \A n \in DOMAIN call.out.prayer_times :
                  /\ n \in DOMAIN SentTimings(call.remote)
                  /\ call.out.prayer_times[n] = SentTimings(call.remote)[n]

\* a live result of tools.fixed.py from an answer that held a name the
\* filter drops and lacked one of the five
C4_Witness_LiveFiltered ==
    /\ IsPrayerCall /\ impl = "tools.fixed.py"
    /\ ~IsFallbackResult(call.out)
    /\ nSunrise \in DOMAIN SentTimings(call.remote)
    /\ DOMAIN call.out.prayer_times # FiveNames
    /\ DOMAIN call.out.prayer_times # {}

(***************************************************************************)
(* tools.fixed.py: _search_json_kb.  The knowledge document is a dict with  *)
(* the keys "cities", "activities" and "general_info", any of which may be  *)
(* missing.  "cities" keeps the order of the file: it is a sequence of      *)
(* <<name, entry>> with distinct names, an entry being a dict that may hold *)
(* "top_attractions" and "cultural_tips".                                   *)
(***************************************************************************)
wCulturalTip == <<"c","u","l","t","u","r","a","l"," ","t","i","p">>
wCultureTip == <<"c","u","l","t","u","r","e"," ","t","i","p">>
wDress == <<"d","r","e","s","s">>
wRamadan == <<"r","a","m","a","d","a","n">>
wAttraction == <<"a","t","t","r","a","c","t","i","o","n">>
wThingToDo == <<"t","h","i","n","g"," ","t","o"," ","d","o">>
wWhatCanIDo == <<"w","h","a","t"," ","c","a","n"," ","i"," ","d","o">>
wPlacesToVisit == <<"p","l","a","c","e","s"," ","t","o"," ","v","i","s","i","t">>
wItinerary == <<"i","t","i","n","e","r","a","r","y">>
wCurrency == <<"c","u","r","r","e","n","c","y">>
wLanguage == <<"l","a","n","g","u","a","g","e">>
wBestTime == <<"b","e","s","t"," ","t","i","m","e">>
wTransport == <<"t","r","a","n","s","p","o","r","t">>
wMetro == <<"m","e","t","r","o">>
wAdventure == <<"a","d","v","e","n","t","u","r","e">>
wCulture == <<"c","u","l","t","u","r","e">>
wRelaxation == <<"r","e","l","a","x","a","t","i","o","n">>
wRasAlKhaimahLower == <<"r","a","s"," ","a","l"," ","k","h","a","i","m","a","h">>
wRak == <<"r","a","k">>
sRasAlKhaimah == <<"R","a","s"," ","A","l"," ","K","h","a","i","m","a","h">>
sBeachResortsRAK == <<"B","e","a","c","h"," ","r","e","s","o","r","t","s"," ","i","n"," ",
                      "R","a","s"," ","A","l"," ","K","h","a","i","m","a","h">>
sGeneralLower == <<"g","e","n","e","r","a","l">>

\* the cultural-tip keywords with "dress" left out
CulturalTipWords_without_dress == {wCulturalTip, wCultureTip, wRamadan}

CulturalTipWords == {wCulturalTip, wCultureTip, wDress, wRamadan}
AttractionWords == {wAttraction, wThingToDo, wWhatCanIDo, wPlacesToVisit, wItinerary}
GeneralInfoWords == {wCurrency, wLanguage, wBestTime, wTransport, wMetro}
Buckets == <<wAdventure, wCulture, wRelaxation>>

\* q = (query or "").lower().strip()
NormalizedQuery(query) == Strip(Lower(PyOr(query, PyStr(<<>>)).v))

\* kb.get("cities", {}), kb.get("activities", {}), kb.get("general_info", {})
CitiesOf(doc) == DictGet(doc, "cities", <<>>)
ActivitiesOf(doc) == DictGet(doc, "activities", EmptyDict)
GeneralOf(doc) == DictGet(doc, "general_info", EmptyDict)

CityNames(cities) == {cities[i][1] : i \in DOMAIN cities}
CityEntry(cities, name) == cities[CHOOSE i \in DOMAIN cities : cities[i][1] = name][2]

Min(S) == CHOOSE x \in S : \A y \in S : x <= y

\* the mutant of detect_city that tests `c in q' without lower-casing c
detect_city_case_sensitive(cities, q) ==
    LET hits == {i \in DOMAIN cities : Contains(cities[i][1], q)}
    IN  IF hits # {} THEN PyStr(cities[Min(hits)][1])
        ELSE IF Contains(wRasAlKhaimahLower, q) \/ Contains(wRak, q)
        THEN PyStr(sRasAlKhaimah)
        ELSE PyNone

\* detect_city(): the first city of the document whose lower-cased name is
\* in q, else the alias, else None
detect_city(cities, q) ==
    LET hits == {i \in DOMAIN cities : Contains(Lower(cities[i][1]), q)}
    IN  IF hits # {} THEN PyStr(cities[Min(hits)][1])
        ELSE IF Contains(wRasAlKhaimahLower, q) \/ Contains(wRak, q)
        THEN PyStr(sRasAlKhaimah)
        ELSE PyNone

\* list(dict.fromkeys(tips)): the first occurrence of each item, in order
RECURSIVE Dedup(_)
Dedup(l) ==
    IF l = <<>> THEN <<>>
    ELSE LET rest == Dedup(SubSeq(l, 1, Len(l) - 1))
             x == l[Len(l)]
         IN  IF \E i \in DOMAIN rest : rest[i] = x THEN rest ELSE Append(rest, x)

\* the tips of every city, in the order of the document
RECURSIVE AllTips(_, _)
AllTips(cities, i) ==
    IF i > Len(cities) THEN <<>>
    ELSE DictGet(cities[i][2], "cultural_tips", <<>>) \o AllTips(cities, i + 1)

\* the mutant of the default of _search_json_kb: an empty result
default_result_empty(doc) == [kind |-> "kb", kb |-> EmptyDict]

\* tools.fixed.py line 104: return kb
default_result(doc) == [kind |-> "kb", kb |-> doc]

\* _search_json_kb(kb, query)
search_json_kb(doc, query) ==
    LET q == NormalizedQuery(query)
        cities == CitiesOf(doc)
        activities == ActivitiesOf(doc)
        city == detect_city(cities, q)
        inCities == city # PyNone /\ city.v \in CityNames(cities)
        MentionsRAK(x) == Contains(sRasAlKhaimah, x)
    IN  IF \E w \in CulturalTipWords : Contains(w, q)
        THEN [kind |-> "cultural_tips",
              city |-> IF Truthy(city) THEN city.v ELSE sGeneralLower,
              cultural_tips |->
                 IF inCities /\ "cultural_tips" \in DOMAIN CityEntry(cities, city.v)
                 THEN CityEntry(cities, city.v)["cultural_tips"]
                 ELSE Dedup(AllTips(cities, 1))]
        ELSE IF (\E w \in AttractionWords : Contains(w, q)) /\ city = PyStr(sRasAlKhaimah)
        THEN LET rak_recs == SelectSeq(DictGet(activities, wRelaxation, <<>>), MentionsRAK)
             IN  [kind |-> "top_attractions", city |-> sRasAlKhaimah,
                  top_attractions |->
                     IF rak_recs # <<>> THEN rak_recs ELSE <<sBeachResortsRAK>>]
        ELSE IF (\E w \in AttractionWords : Contains(w, q)) /\ inCities
        THEN [kind |-> "top_attractions", city |-> city.v,
              top_attractions |->
                 DictGet(CityEntry(cities, city.v), "top_attractions", <<>>)]
        ELSE IF \E w \in GeneralInfoWords : Contains(w, q)
        THEN [kind |-> "general_info", general_info |-> GeneralOf(doc)]
        ELSE IF \E i \in DOMAIN Buckets : Contains(Buckets[i], q)
        THEN LET bucket == Buckets[Min({i \in DOMAIN Buckets : Contains(Buckets[i], q)})]
             IN  [kind |-> "bucket", bucket |-> bucket,
                  items |-> DictGet(activities, bucket, <<>>)]
        ELSE default_result(doc)

\* ---- the documents and queries of the model ----
MaxWords == 2

aBurjKhalifa == <<"B","u","r","j"," ","K","h","a","l","i","f","a">>
aDubaiMall == <<"D","u","b","a","i"," ","M","a","l","l">>
aAlNoorIsland == <<"A","l"," ","N","o","o","r"," ","I","s","l","a","n","d">>
aJebelJais == <<"J","e","b","e","l"," ","J","a","i","s">>
aRakBeach == <<"R","a","s"," ","A","l"," ","K","h","a","i","m","a","h"," ","b","e","a","c","h">>
aSpaDay == <<"S","p","a"," ","d","a","y">>
aDesertSafari == <<"D","e","s","e","r","t"," ","s","a","f","a","r","i">>
aMuseum == <<"M","u","s","e","u","m"," ","t","o","u","r">>
tDressModestly == <<"D","r","e","s","s"," ","m","o","d","e","s","t","l","y">>
tAskBeforePhotos == <<"A","s","k"," ","b","e","f","o","r","e"," ","p","h","o","t","o","s">>
gAED == <<"A","E","D">>

Entry(attractions, tips) ==
    [k \in {"top_attractions", "cultural_tips"} |->
        IF k = "top_attractions" THEN attractions ELSE tips]
OnlyTips(tips) == [k \in {"cultural_tips"} |-> tips]
OnlyAttractions(attractions) == [k \in {"top_attractions"} |-> attractions]

\* a city of a document: its name and one of its entries
CityChoices ==
    { <<sDubai, Entry(<<aBurjKhalifa, aDubaiMall>>, <<tDressModestly, tAskBeforePhotos>>)>>,
      <<sDubai, OnlyTips(<<tAskBeforePhotos>>)>>,
      <<sSharjah, Entry(<<aAlNoorIsland>>, <<tDressModestly>>)>>,
      <<sSharjah, OnlyAttractions(<<>>)>>,
      <<sRasAlKhaimah, OnlyAttractions(<<aJebelJais>>)>> }

\* every order of every choice of cities with distinct names
CitySeqs ==
    { cs \in UNION { [1..n -> CityChoices] : n \in 0..3 } :
        \A i, j \in DOMAIN cs : i # j => cs[i][1] # cs[j][1] }

ActivitiesFull ==
    [b \in {wAdventure, wCulture, wRelaxation} |->
        CASE b = wAdventure -> <<aDesertSafari>>
          [] b = wCulture -> <<aMuseum>>
          [] b = wRelaxation -> <<aSpaDay, aRakBeach>>]
ActivitiesNoRelaxation == [b \in {wAdventure} |-> <<aDesertSafari>>]
GeneralInfo == [k \in {"currency"} |-> gAED]

Doc(cities, activities) ==
    [k \in {"cities", "activities", "general_info"} |->
        CASE k = "cities" -> cities
          [] k = "activities" -> activities
          [] k = "general_info" -> GeneralInfo]

Docs ==
    { Doc(cs, ActivitiesFull) : cs \in CitySeqs }
    \cup { Doc(<<>>, ActivitiesNoRelaxation),
           [k \in {"general_info"} |-> GeneralInfo],
           [k \in {} |-> <<>>] }

fRAK == <<"R","A","K">>
fAttractions == <<"a","t","t","r","a","c","t","i","o","n","s">>
fDressCode == <<"d","r","e","s","s"," ","c","o","d","e">>
fCultureTips == <<"C","u","l","t","u","r","e"," ","t","i","p","s">>
fHello == <<"h","e","l","l","o">>
fSharjahAttractions == ssharjah \o <<" ">> \o fAttractions

\* the words queries are made of
Fragments == {sDubai, fSharjahAttractions, sRasAlKhaimah, fRAK, fAttractions, fDressCode,
              fCultureTips, wCurrency, wRelaxation, fHello}

RECURSIVE JoinWords(_)
JoinWords(ws) ==
    IF ws = <<>> THEN <<>>
    ELSE IF Len(ws) = 1 THEN ws[1]
    ELSE ws[1] \o <<" ">> \o JoinWords(Tail(ws))

QueryArgs ==
    {PyNone} \cup
    { PyStr(JoinWords(ws)) : ws \in UNION { [1..n -> Fragments] : n \in 0..MaxWords } }

\* the agent calls search_knowledge of tools.fixed.py
CallSearchKnowledge ==
    /\ call = Idle /\ impl = "tools.fixed.py"
    /\ \E query \in QueryArgs :
         call' = [tool |-> "search_knowledge",
                  args |-> [query |-> query],
                  out |-> search_json_kb(kb, query)]
    /\ UNCHANGED <<prefs, lastSet, PREFS, lastSetFixed, kb, hasDDG, impl, turn, sessions>>

\* make_tools(knowledge_path) has loaded one of the documents
InitKB == InitCommon /\ impl = "tools.fixed.py" /\ kb \in Docs /\ hasDDG = TRUE

NextKB ==
    \/ CallSearchKnowledge
    \/ ToolReturn

SpecKB == InitKB /\ [][NextKB]_vars

IsSearchCall == call.tool = "search_knowledge"

\* the query as text ("" when missing), and whether it contains a word,
\* whatever the case of either
QueryText == IF IsStr(call.args.query) THEN call.args.query.v ELSE <<>>
QueryHas(word) == Contains(Lower(word), Lower(QueryText))

HasCulturalTipWord == \E w \in CulturalTipWords : QueryHas(w)

\* the cities of the loaded document that the query names
NamedCities == {i \in DOMAIN CitiesOf(kb) : QueryHas(CitiesOf(kb)[i][1])}

ReturnsAttractionsOf(i) ==
    /\ call.out.kind = "top_attractions"
    /\ call.out.city = CitiesOf(kb)[i][1]
    /\ call.out.top_attractions = CitiesOf(kb)[i][2]["top_attractions"]

\* C5, as claimed: for every document and every query that contains the
\* name of a city of the document and the word "attractions", the search
\* returns that city's top_attractions list unchanged.
C5_Original_AttractionsOfNamedCity ==
    IsSearchCall =>
        \A i \in NamedCities :
            (QueryHas(fAttractions) /\ "top_attractions" \in DOMAIN CitiesOf(kb)[i][2])
            => ReturnsAttractionsOf(i)

\* C5, amended: when the query contains "attractions" and no cultural-tip
\* word, the search returns, unchanged and in order, the top_attractions of
\* the first city of the document that the query names, unless that city is
\* "Ras Al Khaimah", for which it returns the Ras Al Khaimah entries of
\* activities.relaxation (or the stock entry when there is none).
C5_AttractionsOfFirstNamedCity ==
    (IsSearchCall /\ NamedCities # {} /\ QueryHas(fAttractions) /\ ~HasCulturalTipWord)
    => LET i == Min(NamedCities)
           MentionsRAK(x) == Contains(sRasAlKhaimah, x)
           recs == SelectSeq(DictGet(ActivitiesOf(kb), wRelaxation, <<>>), MentionsRAK)
       IN  IF CitiesOf(kb)[i][1] = sRasAlKhaimah
           THEN /\ call.out.kind = "top_attractions"
                /\ call.out.city = sRasAlKhaimah
                /\ call.out.top_attractions =
                      IF recs # <<>> THEN recs ELSE <<sBeachResortsRAK>>
           ELSE "top_attractions" \in DOMAIN CitiesOf(kb)[i][2] => ReturnsAttractionsOf(i)

\* a search that named two cities of the document and returned the two
\* attractions of the first, in the order of the document
C5_Witness_FirstOfTwoCities ==
    /\ IsSearchCall
    /\ Cardinality(NamedCities) = 2
    /\ QueryHas(fAttractions) /\ ~HasCulturalTipWord
    /\ CitiesOf(kb)[Min(NamedCities)][1] = sDubai
    /\ call.out.kind = "top_attractions"
    /\ call.out.top_attractions = <<aBurjKhalifa, aDubaiMall>>

\* the query has a word of one of the four rules
TriggersARule ==
    \/ HasCulturalTipWord
    \/ \E w \in AttractionWords : QueryHas(w)
    \/ \E w \in GeneralInfoWords : QueryHas(w)
    \/ \E i \in DOMAIN Buckets : QueryHas(Buckets[i])

\* C6: for every query (empty and missing included) that triggers none of
\* the four rules, the search does not raise and returns the whole document.
C6_UnmatchedQueryReturnsDocument ==
    (IsSearchCall /\ ~TriggersARule)
    => /\ call.out.kind = "kb"
       /\ call.out.kb = kb

\* a search with no query at all, and one that names a city but no rule,
\* on a document with cities
C6_Witness_MissingQuery ==
    /\ IsSearchCall /\ ~TriggersARule
    /\ call.args.query = PyNone
    /\ CitiesOf(kb) # <<>>
    /\ call.out.kind = "kb" /\ call.out.kb = kb


(***************************************************************************)
(* The preference store: PreferencesStore of tools.py, held by the session  *)
(* and written by set_preferences and by the sidebar, and PreferencesStore  *)
(* of tools.fixed.py, written by set_preferences.                           *)
(***************************************************************************)
InitPrefs == InitCommon /\ kb = EmptyDict /\ hasDDG = TRUE

NextPrefs ==
    \/ CallSetPreferences
    \/ CallGetPreferences
    \/ CallPreferencesStoreGet
    \/ SidebarSetDefaultBudget
    \/ CallSetPreferencesFixed
    \/ CallGetPreferencesFixed
    \/ ToolReturn

SpecPrefs == InitPrefs /\ [][NextPrefs]_vars

IsStoreWrite == call.tool \in {"set_preferences", "PreferencesStore.set"}

\* the store the session's tools work on
StoreNow == IF impl = "tools.py" THEN prefs ELSE PREFS

\* the keys the call in `call' wrote
WrittenKeys ==
    CASE call.tool = "PreferencesStore.set" ->
            IF call.out.kind = "raise" THEN {} ELSE {call.args.key}
      [] call.tool = "set_preferences" /\ impl = "tools.py" ->
            IF call.args.preferences_json.valid
            THEN DOMAIN Written(call.args.preferences_json.value) ELSE {}
      [] call.tool = "set_preferences" /\ impl = "tools.fixed.py" ->
            DOMAIN set_preferences_updates(call.args.budget_level,
                                           call.args.home_city, call.args.language)
      [] OTHER -> {}

\* a read of `key' gave `value': the value last written to the key, else
\* the declared default of the key, else the default the caller passed
ReadIsLastSetOrDefault(declared, last, key, default, value) ==
    value = IF key \in DOMAIN last THEN last[key]
            ELSE IF key \in DOMAIN declared THEN declared[key]
            ELSE default

\* every read and every write of the store behaves as a key/value store
\* with the declared defaults
StoreReadsAndWrites(declaredPy, declaredFixed) ==
    /\ call.tool = "PreferencesStore.get"
       => ReadIsLastSetOrDefault(declaredPy, lastSet, call.args.key,
                                 call.args.default, call.out)
    /\ (call.tool = "get_preferences" /\ impl = "tools.py")
       => \A k \in DOMAIN declaredPy \cup DOMAIN lastSet :
            /\ k \in DOMAIN call.out.prefs
            /\ ReadIsLastSetOrDefault(declaredPy, lastSet, k, PyNone, call.out.prefs[k])
    /\ (call.tool = "get_preferences" /\ impl = "tools.fixed.py")
       => \A k \in DOMAIN declaredFixed \cup DOMAIN lastSetFixed :
            /\ k \in DOMAIN call.out.preferences
            /\ ReadIsLastSetOrDefault(declaredFixed, lastSetFixed, k, PyNone,
                                      call.out.preferences[k])
    /\ IsStoreWrite
       => \A k \in DOMAIN call.before \ WrittenKeys :
            k \in DOMAIN StoreNow /\ StoreNow[k] = call.before[k]

RecognizedKeys == {kBudgetLevel, kInterests, kHomeCity, kLanguage}

\* C8: a set operation never adds an unrecognized key to the store: after
\* every set, the keys the store did not hold before it are recognized keys.
C8_UnknownKeysNeverAdded ==
    IsStoreWrite => (DOMAIN StoreNow \ DOMAIN call.before) \subseteq RecognizedKeys


(***************************************************************************)
(* web_search.  The search backend is the environment: constructing         *)
(* DuckDuckGoSearchRun() succeeds or raises (its search package is missing), *)
(* and ddg.run(query) raises or yields its hits, a string or a list.        *)
(***************************************************************************)
MaxHits == 2

hOne == <<"h","i","t","1">>
hTwo == <<"h","i","t","2">>

\* l[:n]
SliceTo(l, n) ==
    IF n >= 0 THEN SubSeq(l, 1, IF n < Len(l) THEN n ELSE Len(l))
    ELSE SubSeq(l, 1, IF Len(l) + n > 0 THEN Len(l) + n ELSE 0)

\* web_search of tools.py; ddg was constructed by make_tools (line 34)
web_search(run, max_results) ==
    IF run.kind = "raise" THEN [kind |-> "error"]
    ELSE [kind |-> "results",
          results |-> IF run.value.t = "list"
                      THEN PyList(SliceTo(run.value.v, max_results))
                      ELSE run.value]

\* web_search of tools.fixed.py
web_search_fixed(has_ddg, ctor, run) ==
    IF ~has_ddg THEN [kind |-> "error", error |-> "DuckDuckGoSearchRun not installed"]
    ELSE IF ctor = "raise" THEN [kind |-> "raise"]
    ELSE IF run.kind = "raise" THEN [kind |-> "error"]
    ELSE [kind |-> "results", results |-> run.value]

WebQueries == {PyStr(sDubai), PyStr(fHello), PyStr(<<>>)}
MaxResultsArgs == {-1, 0, 1, 5}
CtorOutcomes == {"ok", "raise"}
HitLists ==
    UNION { [1..n -> {PyStr(hOne), PyStr(hTwo)}] : n \in 0..MaxHits }
RunOutcomes ==
    {[kind |-> "raise"], [kind |-> "ok", value |-> PyStr(hOne)]}
    \cup { [kind |-> "ok", value |-> PyList(l)] : l \in HitLists }

\* the agent calls web_search of tools.py
CallWebSearch ==
    /\ call = Idle /\ impl = "tools.py"
    /\ \E query \in WebQueries, max_results \in MaxResultsArgs, run \in RunOutcomes :
         call' = [tool |-> "web_search",
                  args |-> [query |-> query, max_results |-> max_results],
                  run |-> run, out |-> web_search(run, max_results)]
    /\ UNCHANGED <<prefs, lastSet, PREFS, lastSetFixed, kb, hasDDG, impl, turn, sessions>>

\* the agent calls web_search of tools.fixed.py
CallWebSearchFixed ==
    /\ call = Idle /\ impl = "tools.fixed.py"
    /\ \E query \in WebQueries, max_results \in MaxResultsArgs,
          ctor \in CtorOutcomes, run \in RunOutcomes :
         call' = [tool |-> "web_search",
                  args |-> [query |-> query, max_results |-> max_results],
                  ctor |-> ctor, run |-> run,
                  out |-> web_search_fixed(hasDDG, ctor, run)]
    /\ UNCHANGED <<prefs, lastSet, PREFS, lastSetFixed, kb, hasDDG, impl, turn, sessions>>

\* tools.py imports DuckDuckGoSearchRun unconditionally (line 11): a session
\* of tools.py exists only with the import done
InitWeb ==
    /\ InitCommon /\ kb = EmptyDict
    /\ hasDDG \in BOOLEAN
    /\ impl = "tools.py" => hasDDG

NextWeb ==
    \/ CallWebSearch
    \/ CallWebSearchFixed
    \/ ToolReturn

SpecWeb == InitWeb /\ [][NextWeb]_vars

IsWebSearchCall == call.tool = "web_search"

\* C9: web_search never lets an exception out: whether the backend is
\* missing, cannot be constructed or fails in the call, every call returns
\* a result payload or a structured error payload.
C9_WebSearchNeverRaises ==
    IsWebSearchCall => call.out.kind \in {"results", "error"}


(***************************************************************************)
(* The agent.  build_agent of smart_uae_agent.py wraps a tool-calling agent *)
(* in an AgentExecutor with the executor's defaults; build_agent of         *)
(* smart_uae_agent.fixed.py builds a chat ReAct agent with max_iterations=3, *)
(* early_stopping_method="generate" and handle_parsing_errors=True.  A      *)
(* session runs smart_uae_agent.py over tools.py or smart_uae_agent.fixed.py *)
(* over tools.fixed.py.  The language model is the environment: each time   *)
(* it is asked it answers, asks for tools, writes what cannot be parsed, or *)
(* the request fails.  Here a tool is known by its name only; what it       *)
(* computes is the matter of the sections above.                            *)
(***************************************************************************)
max_iterations == 3
DefaultMaxIterations == 15
MaxActionsPerStep == 2

\* the executor's bound without the max_iterations argument
AgentMaxIterations_default(i) == DefaultMaxIterations

\* the executor's bound on the rounds of one run
AgentMaxIterations(i) ==
    IF i = "tools.fixed.py" THEN max_iterations ELSE DefaultMaxIterations

\* the tool-calling agent may ask for several tools in one answer, the
\* ReAct agent for one
ActionsPerStep(i) == IF i = "tools.fixed.py" THEN 1 ELSE MaxActionsPerStep

\* the tools make_tools returns
ToolNames == {"search_knowledge", "web_search", "prayer_times",
              "estimate_budget", "set_preferences", "get_preferences"}

\* agent.invoke({"input": user})
AcceptUtterance ==
    /\ turn.phase = "Idle" /\ call = Idle
    /\ turn' = [phase |-> "Routing", iterations |-> 0, invoked |-> 0, pending |-> 0]
    /\ UNCHANGED <<call, prefs, lastSet, PREFS, lastSetFixed, kb, hasDDG, impl, sessions>>

\* the model answers: the run ends with its answer
PlanFinish ==
    /\ turn.phase = "Routing" /\ turn.iterations < AgentMaxIterations(impl)
    /\ turn' = [turn EXCEPT !.phase = "Composing"]
    /\ UNCHANGED <<call, prefs, lastSet, PREFS, lastSetFixed, kb, hasDDG, impl, sessions>>

\* the model asks for tools
PlanActions ==
    /\ turn.phase = "Routing" /\ turn.iterations < AgentMaxIterations(impl)
    /\ \E n \in 1..ActionsPerStep(impl) :
         turn' = [turn EXCEPT !.phase = "Executing", !.pending = n]
    /\ UNCHANGED <<call, prefs, lastSet, PREFS, lastSetFixed, kb, hasDDG, impl, sessions>>

\* handle_parsing_errors=True: what cannot be parsed costs a round and no
\* tool is invoked
PlanParseError ==
    /\ impl = "tools.fixed.py"
    /\ turn.phase = "Routing" /\ turn.iterations < AgentMaxIterations(impl)
    /\ turn' = [turn EXCEPT !.iterations = @ + 1]
    /\ UNCHANGED <<call, prefs, lastSet, PREFS, lastSetFixed, kb, hasDDG, impl, sessions>>

\* the request to the model fails: the exception leaves agent.invoke
PlanRaises ==
    /\ turn.phase = "Routing"
    /\ turn' = [turn EXCEPT !.phase = "Failed"]
    /\ UNCHANGED <<call, prefs, lastSet, PREFS, lastSetFixed, kb, hasDDG, impl, sessions>>

\* the executor runs the next tool asked for
InvokeTool ==
    /\ turn.phase = "Executing" /\ turn.pending > 0 /\ call = Idle
    /\ \E name \in ToolNames :
         call' = [tool |-> name, out |-> [kind |-> "observation"]]
    /\ turn' = [turn EXCEPT !.invoked = @ + 1, !.pending = @ - 1]
    /\ UNCHANGED <<prefs, lastSet, PREFS, lastSetFixed, kb, hasDDG, impl, sessions>>

\* every tool asked for has run: the round is over
StepDone ==
    /\ turn.phase = "Executing" /\ turn.pending = 0 /\ call = Idle
    /\ turn' = [turn EXCEPT !.phase = "Routing", !.iterations = @ + 1]
    /\ UNCHANGED <<call, prefs, lastSet, PREFS, lastSetFixed, kb, hasDDG, impl, sessions>>

\* the rounds are used up: the executor stops with an answer of its own
\* (early_stopping_method)
Exhausted ==
    /\ turn.phase = "Routing" /\ turn.iterations >= AgentMaxIterations(impl)
    /\ turn' = [turn EXCEPT !.phase = "Composing"]
    /\ UNCHANGED <<call, prefs, lastSet, PREFS, lastSetFixed, kb, hasDDG, impl, sessions>>

\* agent.invoke returns, or raises, and the next utterance can be taken
ReturnAnswer ==
    /\ turn.phase \in {"Composing", "Failed"}
    /\ turn' = NoTurn
    /\ UNCHANGED <<call, prefs, lastSet, PREFS, lastSetFixed, kb, hasDDG, impl, sessions>>

InitAgent == InitCommon /\ kb = EmptyDict /\ hasDDG = TRUE

NextAgent ==
    \/ AcceptUtterance
    \/ PlanFinish
    \/ PlanActions
    \/ PlanParseError
    \/ PlanRaises
    \/ InvokeTool
    \/ ToolReturn
    \/ StepDone
    \/ Exhausted
    \/ ReturnAnswer

SpecAgent == InitAgent /\ [][NextAgent]_vars

C11_RoundCapIsThree ==
    /\ turn.iterations <= max_iterations
    /\ (turn.phase = "Executing" => turn.iterations < max_iterations)


(***************************************************************************)
(* The sessions.  app_streamlit.py keeps, for each browser session, the     *)
(* chat log, the agent and a PreferencesStore in st.session_state, and      *)
(* answers an utterance with _safe_agent_invoke; it runs with tools.py and  *)
(* smart_uae_agent.py.  With tools.fixed.py a session is an agent built by  *)
(* build_agent: the tools of every make_tools call in the process work on   *)
(* the one module-level PREFS.  The tools an agent calls while it runs are  *)
(* the preference tools; the steps of two sessions interleave.              *)
(***************************************************************************)
MaxTurns == 2

sAnswer == <<"o","k">>
sSorry == <<"S","o","r","r","y">>

Message(role, content) == [role |-> role, content |-> content]

\* what the sessions' tools are called with
SessionJsons == {NotJson, JsonText(OneKey(kHomeCity, PyStr(sDubai)))}
SessionBudgetLevelArgs == {PyNone, PyStr(sLuxury)}
SessionHomeCityArgs == {PyNone, PyStr(sDubai)}
SessionSidebarBudgets == {sMid, sLuxe}

\* the store the tools of session s work on
SessionStore(s) == IF impl = "tools.py" THEN sessions[s].prefs ELSE PREFS

\* the agent of session s is running: always so for an agent driven from
\* outside the app
AgentRunning(s) == impl = "tools.fixed.py" \/ sessions[s].pc # "idle"

\* the agent of session s calls set_preferences
SessionSetPreferences(s) ==
    /\ call = Idle /\ AgentRunning(s)
    /\ IF impl = "tools.py"
       THEN /\ \E text \in SessionJsons :
                 LET r == set_preferences(sessions[s].prefs, text)
                 IN  /\ sessions' = [sessions EXCEPT ![s].prefs = r.store]
                     /\ call' = [tool |-> "set_preferences", session |-> s,
                                 args |-> [preferences_json |-> text], out |-> r.out]
            /\ UNCHANGED <<PREFS, lastSetFixed>>
       ELSE /\ \E budget_level \in SessionBudgetLevelArgs,
                  home_city \in SessionHomeCityArgs :
                 LET r == set_preferences_fixed(PREFS, budget_level, home_city, PyNone)
                 IN  /\ PREFS' = r.store
                     /\ lastSetFixed' =
                           Merge(lastSetFixed,
                                 set_preferences_updates(budget_level, home_city, PyNone))
                     /\ call' = [tool |-> "set_preferences", session |-> s,
                                 args |-> [budget_level |-> budget_level,
                                           home_city |-> home_city, language |-> PyNone],
                                 out |-> r.out]
            /\ UNCHANGED sessions
    /\ UNCHANGED <<prefs, lastSet, kb, hasDDG, impl, turn>>

\* the agent of session s calls get_preferences
SessionGetPreferences(s) ==
    /\ call = Idle /\ AgentRunning(s)
    /\ call' = [tool |-> "get_preferences", session |-> s,
                out |-> IF impl = "tools.py" THEN get_preferences(sessions[s].prefs)
                        ELSE get_preferences_fixed(PREFS)]
    /\ UNCHANGED <<prefs, lastSet, PREFS, lastSetFixed, kb, hasDDG, impl, turn, sessions>>

\* app_streamlit.py lines 145-147 and 203-212: a run of the script with an
\* utterance stores the sidebar's budget choice, appends the user's entry
\* and enters _safe_agent_invoke, whose first attempt is agent.invoke
SubmitUtterance(s) ==
    /\ impl = "tools.py" /\ call = Idle
    /\ sessions[s].pc = "idle"
    /\ Len(sessions[s].messages) < 2 * MaxTurns
    /\ \E default_budget \in SessionSidebarBudgets :
         sessions' = [sessions EXCEPT
            ![s].prefs = PreferencesStore_set(@, kDefaultBudget, PyStr(default_budget)),
            ![s].messages = Append(@, Message("user", fHello)),
            ![s].pc = "invoke",
            ![s].runs = 1]
    /\ UNCHANGED <<call, prefs, lastSet, PREFS, lastSetFixed, kb, hasDDG, impl, turn>>

\* the attempt in progress returns: the reply is appended (lines 214-216)
AttemptReturns(s) ==
    /\ impl = "tools.py" /\ call = Idle
    /\ sessions[s].pc \in {"invoke", "run", "callable"}
    /\ sessions' = [sessions EXCEPT
            ![s].messages = Append(@, Message("assistant", sAnswer)),
            ![s].pc = "idle"]
    /\ UNCHANGED <<call, prefs, lastSet, PREFS, lastSetFixed, kb, hasDDG, impl, turn>>

\* AttemptRaises without the try of the chat loop: what the last attempt
\* raises ends the run of the script and no reply is appended
AttemptRaises_unhandled(s) ==
    /\ impl = "tools.py" /\ call = Idle
    /\ sessions[s].pc \in {"invoke", "run", "callable"}
    /\ \E is_callable \in BOOLEAN :
         sessions' =
            IF sessions[s].pc = "invoke"
            THEN [sessions EXCEPT ![s].pc = "run", ![s].runs = @ + 1]
            ELSE IF sessions[s].pc = "run" /\ is_callable
            THEN [sessions EXCEPT ![s].pc = "callable", ![s].runs = @ + 1]
            ELSE [sessions EXCEPT ![s].pc = "idle"]
    /\ UNCHANGED <<call, prefs, lastSet, PREFS, lastSetFixed, kb, hasDDG, impl, turn>>

\* the attempt in progress raises: _safe_agent_invoke goes on to agent.run,
\* then to agent(text) if the agent is callable; what the last attempt
\* raises, or the RuntimeError of line 50, reaches the chat loop, which
\* appends the error reply (lines 211-214)
AttemptRaises(s) ==
    /\ impl = "tools.py" /\ call = Idle
    /\ sessions[s].pc \in {"invoke", "run", "callable"}
    /\ \E is_callable \in BOOLEAN :
         sessions' =
            IF sessions[s].pc = "invoke"
            THEN [sessions EXCEPT ![s].pc = "run", ![s].runs = @ + 1]
            ELSE IF sessions[s].pc = "run" /\ is_callable
            THEN [sessions EXCEPT ![s].pc = "callable", ![s].runs = @ + 1]
            ELSE [sessions EXCEPT
                    ![s].messages = Append(@, Message("assistant", sSorry)),
                    ![s].pc = "idle"]
    /\ UNCHANGED <<call, prefs, lastSet, PREFS, lastSetFixed, kb, hasDDG, impl, turn>>

\* lines 149-153: "Clear chat" deletes every key of st.session_state and
\* reruns the script, which builds the state anew
ClearChat(s) ==
    /\ impl = "tools.py" /\ call = Idle
    /\ sessions[s].pc = "idle"
    /\ sessions' = [sessions EXCEPT ![s] = NewSession]
    /\ UNCHANGED <<call, prefs, lastSet, PREFS, lastSetFixed, kb, hasDDG, impl, turn>>

InitApp == InitCommon /\ kb = EmptyDict /\ hasDDG = TRUE

NextApp ==
    \/ \E s \in SessionIds : SessionSetPreferences(s)
    \/ \E s \in SessionIds : SessionGetPreferences(s)
    \/ \E s \in SessionIds : SubmitUtterance(s)
    \/ \E s \in SessionIds : AttemptReturns(s)
    \/ \E s \in SessionIds : AttemptRaises(s)
    \/ \E s \in SessionIds : ClearChat(s)
    \/ ToolReturn

SpecApp == InitApp /\ [][NextApp]_vars


\* what get_preferences returns in session s
SessionView(s) == SessionStore(s)

\* session s makes a step: its agent calls set_preferences, or its chat
\* log or its place in the turn changes
SessionSets(s) ==
    call = Idle /\ call' # Idle /\ call'.tool = "set_preferences" /\ call'.session = s
SessionChats(s) == sessions'[s].messages # sessions[s].messages

\* C12: in every interleaving of two sessions, a set_preferences call of
\* one session leaves what get_preferences returns in the other as it was,
\* and a turn of one session leaves the other's conversation log as it was.
C12_SessionsDisjoint ==
    [][\A s \in SessionIds : \A t \in SessionIds \ {s} :
          /\ SessionSets(s) => SessionView(t)' = SessionView(t)
          /\ SessionChats(s) => sessions'[t].messages = sessions[t].messages]_vars


\* C13: whatever the arguments and whatever set_preferences stored before,
\* estimate_budget, set_preferences and get_preferences return a result or
\* an error payload; no exception leaves them.
C13_NoExceptionEscapes ==
    call.tool \in {"estimate_budget", "set_preferences", "get_preferences"}
    => call.out.kind # "raise"


\* the keywords of the four rules, as the specification lists them
TipKeyword ==
    QueryHas(wCulturalTip) \/ QueryHas(wCultureTip) \/ QueryHas(wDress) \/ QueryHas(wRamadan)
AttractionKeyword ==
    \/ QueryHas(wAttraction) \/ QueryHas(wThingToDo) \/ QueryHas(wWhatCanIDo)
    \/ QueryHas(wPlacesToVisit) \/ QueryHas(wItinerary)
GeneralKeyword ==
    \/ QueryHas(wCurrency) \/ QueryHas(wLanguage) \/ QueryHas(wBestTime)
    \/ QueryHas(wTransport) \/ QueryHas(wMetro)
BucketKeyword == QueryHas(wAdventure) \/ QueryHas(wCulture) \/ QueryHas(wRelaxation)

\* the query names a city of the document, or Ras Al Khaimah
CityDetected == NamedCities # {} \/ QueryHas(wRasAlKhaimahLower) \/ QueryHas(wRak)

\* the kind of result of the first rule, in the order of priority, for
\* which `attraction' says that the attraction rule is triggered
ResultOfFirstRule(attraction) ==
    IF TipKeyword THEN "cultural_tips"
    ELSE IF attraction THEN "top_attractions"
    ELSE IF GeneralKeyword THEN "general_info"
    ELSE IF BucketKeyword THEN "bucket"
    ELSE "kb"

\* the query holds the keywords of more than one rule
SeveralRulesTriggered ==
    Cardinality({r \in {"tip", "attraction", "general", "bucket"} :
                    CASE r = "tip" -> TipKeyword
                      [] r = "attraction" -> AttractionKeyword
                      [] r = "general" -> GeneralKeyword
                      [] r = "bucket" -> BucketKeyword}) > 1

\* C14, as claimed: for a query with the keywords of more than one rule,
\* the result is that of the first rule, in the order
\* cultural-tip, attraction, general-info, activity-category, whose keyword
\* is in the query.
C14_Original_KeywordPriority ==
    (IsSearchCall /\ SeveralRulesTriggered)
    => call.out.kind = ResultOfFirstRule(AttractionKeyword)

\* C14, amended: the same, the attraction rule counting as triggered only
\* when the query also names a city of the document or Ras Al Khaimah;
\* without a city an attraction keyword is passed over.
C14_PriorityWithCityForAttractions ==
    IsSearchCall => call.out.kind = ResultOfFirstRule(AttractionKeyword /\ CityDetected)

\* a query with a cultural-tip keyword, an attraction keyword and a city of
\* the document, answered with cultural tips
C14_Witness_TipsBeforeAttractions ==
    /\ IsSearchCall /\ SeveralRulesTriggered
    /\ TipKeyword /\ AttractionKeyword /\ NamedCities # {}
    /\ call.out.kind = "cultural_tips"


\* the entry of the city the search detects (the first the query names), and
\* whether the document holds nothing of a category for it, or for any city
DetectedEntry == CitiesOf(kb)[Min(NamedCities)][2]
LacksData(entry, category) ==
    category \notin DOMAIN entry \/ entry[category] = <<>>
SomeCityHas(category) ==
    \E i \in DOMAIN CitiesOf(kb) : ~LacksData(CitiesOf(kb)[i][2], category)

\* C15: when the query names a city of the document and the cultural-tip
\* or the attraction rule answers, but the document holds no data of that
\* category for the city, the list returned is a substitute and not empty
\* (as far as any city of the document has data of the category).
C15_SubstituteNeverEmpty ==
    (IsSearchCall /\ NamedCities # {})
    => /\ (call.out.kind = "cultural_tips"
           /\ LacksData(DetectedEntry, "cultural_tips") /\ SomeCityHas("cultural_tips"))
          => call.out.cultural_tips # <<>>
       /\ (call.out.kind = "top_attractions"
           /\ LacksData(DetectedEntry, "top_attractions") /\ SomeCityHas("top_attractions"))
          => call.out.top_attractions # <<>>


\* the log of session s is a sequence of turns, a user entry followed by
\* an assistant entry, the last turn lacking its assistant entry exactly
\* while its utterance is being answered
LogWellFormed(s) ==
    LET m == sessions[s].messages
    IN  /\ \A i \in DOMAIN m : m[i].role = IF i % 2 = 1 THEN "user" ELSE "assistant"
        /\ sessions[s].pc = "idle" <=> Len(m) % 2 = 0

\* a step leaves the log of session s alone, or appends one entry to it
\* (the reply, also the error reply, when the answering ends), or is the
\* clear-chat that resets the session
LogStep(s) ==
    LET m == sessions[s].messages
        n == sessions'[s].messages
    IN  /\ \/ n = m
           \/ Len(n) = Len(m) + 1 /\ SubSeq(n, 1, Len(m)) = m
           \/ sessions[s].pc = "idle" /\ sessions'[s] = NewSession
        /\ (sessions[s].pc # "idle" /\ sessions'[s].pc = "idle")
           => /\ Len(n) = Len(m) + 1
              /\ n[Len(n)] \in {Message("assistant", sAnswer), Message("assistant", sSorry)}

\* C16: the conversation log is append-only and chronological: every
\* utterance appends one user entry and then one assistant entry, the
\* error reply when the agent call fails; no turn changes or removes an
\* earlier entry, and only clear-chat resets the log.
C16_LogAppendOnly ==
    [][\A s \in SessionIds : LogWellFormed(s) /\ LogWellFormed(s)' /\ LogStep(s)]_vars

\* a log of two turns, the first answered with the error reply after the
\* agent call failed, the second answered by the agent
C16_Witness_ErrorReplyThenAnswer ==
    /\ sessions[1].pc = "idle"
    /\ sessions[1].messages =
          <<Message("user", fHello), Message("assistant", sSorry),
            Message("user", fHello), Message("assistant", sAnswer)>>


\* C17: for one utterance _safe_agent_invoke runs the agent at most once;
\* the .run and callable fallbacks never run it again after an attempt
\* that already ran.
C17_AgentRunsAtMostOnce ==
    \A s \in SessionIds : sessions[s].runs <= 1


\* C18: when set_preferences returns an error payload, the store is left
\* exactly as it was before the call.
C18_FailedUpdateLeavesStore ==
    (call.tool = "set_preferences" /\ call.out.kind = "error")
    => StoreNow = call.before

=============================================================================
